---- MODULE Spec2Model ----
(***************************************************************************)
(* State machine of the satellite traffic backend (backend/main.py):       *)
(* the shared catalog `tracked`, the subscriber set `clients`, the         *)
(* last-observed-error string, and the three forever-loops tracker_loop,   *)
(* positions_loop and broadcast_snapshot, interleaved at their await       *)
(* points (asyncio runs one task at a time between awaits).                *)
(***************************************************************************)
EXTENDS Integers, Sequences, FiniteSets, TLC

(* ------------------------------------------------------------------ *)
(* Program constants                                                   *)
(* ------------------------------------------------------------------ *)
MAX_PARALLEL_REQUESTS == 4
NUM_ABOVE_SEEDS == 6
LEO_MAX_ALT == 2000
POSITIONS_BATCH_SIZE == 50

(* ------------------------------------------------------------------ *)
(* Bounds of the model                                                 *)
(* ------------------------------------------------------------------ *)
\* the wall clock runs over 0..MaxClock
MaxClock == 1
\* the upstream answers at most MaxAnswers fetches of a run with a payload;
\* every other fetch ends in a network error or timeout
MaxAnswers == 2
\* the same, in the specifications that start from a catalog a first sweep
\* pass has filled
MaxAnswersSeeded == 1

VARIABLES
    demo_mode,      \* DEMO_MODE
    has_key,        \* bool(N2YO_API_KEY)
    clock,          \* time.time()
    tracked,        \* the catalog: satid -> dict, in insertion order
    last_err,       \* _last_n2yo_error
    upstream,       \* the payloads the upstream source answers with
    answers_left,   \* how many fetches it will still answer with a payload
    t_pc,           \* tracker_loop: the await it is suspended at
    t_i,            \* tracker_loop: i, the start of the current batch
    t_now,          \* tracker_loop: now
    t_inflight,     \* tracker_loop: seeds whose fetch of the current gather is in flight
    t_res,          \* tracker_loop: results of the current gather, by seed
    t_batch_geo,    \* tracker_loop: batch_geo
    t_geo,          \* tracker_loop: geo_responses
    t_all,          \* tracker_loop: all_responses
    t_issued,       \* observation: fetches issued in the current pass, in order
    t_failed,       \* observation: a fetch of the current pass raised
    p_pc,           \* positions_loop: the await it is suspended at
    p_sats,         \* positions_loop: sats_to_update
    p_i,            \* positions_loop: i, the start of the current batch
    p_now,          \* positions_loop: now
    p_inflight,     \* positions_loop: ids whose fetch of the current gather is in flight
    p_res,          \* positions_loop: results of the current gather, by id
    p_failed,       \* observation: a fetch of the current pass failed
    clients,        \* the subscriber set
    ws_state,       \* each connection: "new", "open" or "closed" (the peer is gone)
    b_pc,           \* broadcast_snapshot: the await it is suspended at
    b_sats,         \* broadcast_snapshot: sats, a list of references into the catalog
    b_meta,         \* broadcast_snapshot: the counts and alerts of payload
    b_todo,         \* broadcast_snapshot: the clients the for loop has not reached
    b_cur,          \* broadcast_snapshot: the client send_json is awaited for
    b_msg,          \* broadcast_snapshot: the message serialised for b_cur
    b_dead,         \* broadcast_snapshot: dead
    b_snap,         \* observation: the catalog entries when the tick listed them
    b_start,        \* observation: the subscriber set when the tick started
    received,       \* observation: what each client was sent in the current tick
    last_pass,      \* observation: the loop that started a pass most recently
    l_pc,           \* load_all_satellites: "idle" or "gather" (awaiting line 233)
    l_now,          \* load_all_satellites: now
    l_pending,      \* load_all_satellites: the number of its fetches in flight
    l_res,          \* load_all_satellites: what its fetches returned so far
    d_pc,           \* demo_loop: "start" or "sleep"
    q_resp          \* api_snapshot: the payload of the latest response

\* what is fixed when the process starts
config == <<demo_mode, has_key, upstream>>

tvars == <<t_pc, t_i, t_now, t_inflight, t_res, t_batch_geo, t_geo, t_all,
           t_issued, t_failed>>

pvars == <<p_pc, p_sats, p_i, p_now, p_inflight, p_res, p_failed>>

bvars == <<b_pc, b_sats, b_meta, b_todo, b_cur, b_msg, b_dead, b_snap, b_start, received>>

cvars == <<clients, ws_state>>

lvars == <<l_pc, l_now, l_pending, l_res>>

\* load_all_satellites, demo_loop and api_snapshot
hvars == <<lvars, d_pc, q_resp>>

(* ------------------------------------------------------------------ *)
(* Python values                                                       *)
(* ------------------------------------------------------------------ *)
\* an optional value: None (also: key absent from a dict) or a value
None == <<>>
Some(v) == <<v>>
\* a JSON value on which float() raises ValueError
NonNumeric == <<"not", "a number">>

Min(a, b) == IF a < b THEN a ELSE b

\* seq[i:j] of Python, 0-based, j clipped to the length
Slice(seq, i, j) == SubSeq(seq, i + 1, Min(j, Len(seq)))

\* range(0, n): the 0-based indices
Range0(n) == 0 .. (n - 1)

\* ABOVE_SEEDS as the list of its indices
ABOVE_SEEDS == [k \in 1 .. NUM_ABOVE_SEEDS |-> k - 1]

(* ------------------------------------------------------------------ *)
(* The catalog: an insertion-ordered dict satid -> dict                *)
(* ------------------------------------------------------------------ *)
EmptyDict ==
    [satid |-> None, satname |-> None, satlat |-> None, satlng |-> None,
     satalt |-> None, category |-> None, last_update |-> None]

Keys(T) == [n \in 1 .. Len(T) |-> T[n].key]
KeySet(T) == {T[n].key : n \in 1 .. Len(T)}
Values(T) == [n \in 1 .. Len(T) |-> T[n].val]
Has(T, k) == k \in KeySet(T)
Get(T, k) == (CHOOSE n \in 1 .. Len(T) : T[n].key = k)
Lookup(T, k) == T[Get(T, k)].val

\* an insertion that starts the catalog afresh with the new id
SetDefaultFresh(T, k) == IF Has(T, k) THEN T ELSE <<[key |-> k, val |-> EmptyDict]>>

\* tracked.setdefault(satid, {})
SetDefault(T, k) == IF Has(T, k) THEN T ELSE Append(T, [key |-> k, val |-> EmptyDict])

\* dict.update(upd): the keys of upd are overwritten, the others kept
DictUpdate(d, upd) ==
    [f \in DOMAIN d |-> IF f \in DOMAIN upd THEN upd[f] ELSE d[f]]

\* tracked[satid].update(upd)
Update(T, k, upd) ==
    [n \in 1 .. Len(T) |->
        IF T[n].key = k THEN [key |-> k, val |-> DictUpdate(T[n].val, upd)] ELSE T[n]]

(* ------------------------------------------------------------------ *)
(* Conversions of the raw JSON values                                  *)
(* ------------------------------------------------------------------ *)
\* float(x) / int(x) raise on a non-numeric value
Raises(x) == x = NonNumeric
\* float(x), int(x) of a JSON number
Float(x) == x[1]
\* float(item.get(k)) if item.get(k) is not None else None
OptFloat(x) == IF x # None THEN Some(Float(x)) ELSE None
OptFloatRaises(x) == x # None /\ Raises(x)
\* float(item.get(k, 0.0))
FloatOrZero(x) == IF x = None THEN 0 ELSE Float(x)
FloatOrZeroRaises(x) == x # None /\ Raises(x)

(* ------------------------------------------------------------------ *)
(* Error payloads                                                      *)
(* ------------------------------------------------------------------ *)
\* str.lower() on the words the model's messages are made of
Lower(w) ==
    CASE w = "Exceeded" -> "exceeded"
      [] w = "Rate" -> "rate"
      [] w = "Limit" -> "limit"
      [] w = "Invalid" -> "invalid"
      [] w = "Key" -> "key"
      [] OTHER -> w

\* resp.get("error") as a condition: None and "" are falsy
Truthy(e) == e # None /\ e[1] # <<>>

\* "exceeded" in error_msg.lower() or "rate limit" in error_msg.lower()
\* (a message is the sequence of its words)
IsRateLimit(msg) ==
    \/ \E n \in 1 .. Len(msg) : Lower(msg[n]) = "exceeded"
    \/ \E n \in 1 .. (Len(msg) - 1) :
          Lower(msg[n]) = "rate" /\ Lower(msg[n + 1]) = "limit"

(* ------------------------------------------------------------------ *)
(* tracker_loop: merging the records of the sweep responses            *)
(* ------------------------------------------------------------------ *)
\* the body of "for item in geo_resp.get('above', [])": one GEO record.
\* Result: the catalog, and whether an exception left the loop.
GeoFields(item, satid, now) ==
    [satid |-> Some(satid),
     satname |-> item.satname,
     satlat |-> OptFloat(item.satlat),
     satlng |-> OptFloat(item.satlng),
     satalt |-> Some(FloatOrZero(item.satalt)),
     category |-> Some("GEO"),
     last_update |-> Some(now)]

MergeGeoItem(T, item, now) ==
    IF item.satid = None \/ Raises(item.satid)
    THEN [T |-> T, raised |-> TRUE]
    ELSE LET satid == Float(item.satid)
             T1 == SetDefault(T, satid)
         IN IF OptFloatRaises(item.satlat) \/ OptFloatRaises(item.satlng)
               \/ FloatOrZeroRaises(item.satalt)
            THEN [T |-> T1, raised |-> TRUE]
            ELSE [T |-> Update(T1, satid, GeoFields(item, satid, now)),
                  raised |-> FALSE]

\* the body of "for item in all_resp.get('above', [])": one record of the
\* unfiltered response, kept when its altitude is below LEO_MAX_ALT
LeoFields(item, satid, alt, now) ==
    [satid |-> Some(satid),
     satname |-> item.satname,
     satlat |-> OptFloat(item.satlat),
     satlng |-> OptFloat(item.satlng),
     satalt |-> Some(alt),
     category |-> Some("LEO"),
     last_update |-> Some(now)]

MergeAllItem(T, item, now) ==
    IF FloatOrZeroRaises(item.satalt)
    THEN [T |-> T, raised |-> TRUE]
    ELSE LET alt == FloatOrZero(item.satalt)
         IN IF ~(alt < LEO_MAX_ALT)
            THEN [T |-> T, raised |-> FALSE]
            ELSE IF item.satid = None \/ Raises(item.satid)
            THEN [T |-> T, raised |-> TRUE]
            ELSE LET satid == Float(item.satid)
                     T1 == SetDefault(T, satid)
                 IN IF OptFloatRaises(item.satlat) \/ OptFloatRaises(item.satlng)
                    THEN [T |-> T1, raised |-> TRUE]
                    ELSE [T |-> Update(T1, satid, LeoFields(item, satid, alt, now)),
                          raised |-> FALSE]

MergeItem(family, T, item, now) ==
    IF family = "geo" THEN MergeGeoItem(T, item, now) ELSE MergeAllItem(T, item, now)

\* the inner for loop over one response's records, from record n on
\* (r is bound to the value of one record's merge, then the loop goes on)
RECURSIVE MergeItems(_, _, _, _, _)
MergeItems(family, T, items, n, now) ==
    IF n > Len(items)
    THEN [T |-> T, raised |-> FALSE]
    ELSE CHOOSE out \in
            { IF r.raised THEN r ELSE MergeItems(family, r.T, items, n + 1, now) :
                 r \in {MergeItem(family, T, items[n], now)} } : TRUE

\* the body of "for resp in responses" (lines 379-398, 402-423): the error
\* of a payload is recorded, a rate-limit error breaks the loop, the records
\* are merged. st = [T, err, raised, broke]
ProcessResponse(family, st, resp, now) ==
    LET isErr == Truthy(resp.error)
        err1 == IF isErr THEN resp.error ELSE st.err
    IN IF isErr /\ IsRateLimit(resp.error[1])
       THEN [T |-> st.T, err |-> err1, raised |-> FALSE, broke |-> TRUE]
       ELSE CHOOSE out \in
               { [T |-> m.T, err |-> err1, raised |-> m.raised, broke |-> FALSE] :
                    m \in {MergeItems(family, st.T, resp.above, 1, now)} } : TRUE

\* "for resp in responses": the loop over the responses of one family, from
\* response n on, until it ends, breaks or raises
RECURSIVE ProcessResponses(_, _, _, _, _)
ProcessResponses(family, st, resps, n, now) ==
    IF n > Len(resps) \/ st.raised \/ st.broke
    THEN st
    ELSE CHOOSE out \in
            { ProcessResponses(family, nxt, resps, n + 1, now) :
                 nxt \in {ProcessResponse(family, st, resps[n], now)} } : TRUE

\* lines 377-423: the GEO responses, then the ALL responses; an exception
\* raised by a record ends the pass (line 426)
ProcessSweep(T, err, geo, all, now) ==
    CHOOSE out \in
       { IF g.raised THEN g
         ELSE ProcessResponses("all", [g EXCEPT !.broke = FALSE], all, 1, now) :
            g \in {ProcessResponses("geo",
                      [T |-> T, err |-> err, raised |-> FALSE, broke |-> FALSE],
                      geo, 1, now)} } : TRUE

(* ------------------------------------------------------------------ *)
(* conj.py: proximity screening                                        *)
(* ------------------------------------------------------------------ *)
EARTH_RADIUS_KM == 6371
PROXIMITY_THRESHOLD_KM == 5

\* 100 * math.sin of the whole degrees 0 .. 90, rounded
SinTable ==
    <<
       0, 2, 3, 5, 7, 9, 10, 12, 14, 16, 17, 19, 21,
       22, 24, 26, 28, 29, 31, 33, 34, 36, 37, 39, 41, 42,
       44, 45, 47, 48, 50, 52, 53, 54, 56, 57, 59, 60, 62,
       63, 64, 66, 67, 68, 69, 71, 72, 73, 74, 75, 77, 78,
       79, 80, 81, 82, 83, 84, 85, 86, 87, 87, 88, 89, 90,
       91, 91, 92, 93, 93, 94, 95, 95, 96, 96, 97, 97, 97,
       98, 98, 98, 99, 99, 99, 99, 100, 100, 100, 100, 100, 100 >>

\* math.sin and math.cos of an angle in whole degrees, times 100
Sin100(deg) ==
    LET d == deg % 360
    IN IF d <= 90 THEN SinTable[d + 1]
       ELSE IF d <= 180 THEN SinTable[180 - d + 1]
       ELSE IF d <= 270 THEN 0 - SinTable[d - 180 + 1]
       ELSE 0 - SinTable[360 - d + 1]
Cos100(deg) == Sin100(deg + 90)

\* to_ecef, in whole km
ToEcef(lat, lon, alt_km) ==
    LET r == EARTH_RADIUS_KM + alt_km
    IN [x |-> (r * Cos100(lat) * Cos100(lon)) \div 10000,
        y |-> (r * Cos100(lat) * Sin100(lon)) \div 10000,
        z |-> (r * Sin100(lat)) \div 100]

\* math.sqrt, rounded down: the root of n lies in lo .. hi
RECURSIVE SqrtIn(_, _, _)
SqrtIn(n, lo, hi) ==
    IF lo >= hi THEN lo
    ELSE LET mid == (lo + hi + 1) \div 2
         IN IF mid * mid <= n THEN SqrtIn(n, mid, hi) ELSE SqrtIn(n, lo, mid - 1)
Sqrt(n) == SqrtIn(n, 0, 46340)

Abs(x) == IF x < 0 THEN 0 - x ELSE x

\* math.sqrt(dx ** 2 + dy ** 2 + dz ** 2) in whole km; over 20000 km the
\* squares are taken of the differences in units of 100 km, to stay within
\* the 32-bit integers of the model checker
Norm(dx, dy, dz) ==
    IF Abs(dx) <= 20000 /\ Abs(dy) <= 20000 /\ Abs(dz) <= 20000
    THEN Sqrt(dx * dx + dy * dy + dz * dz)
    ELSE 100 * Sqrt((Abs(dx) \div 100) * (Abs(dx) \div 100)
                    + (Abs(dy) \div 100) * (Abs(dy) \div 100)
                    + (Abs(dz) \div 100) * (Abs(dz) \div 100))

\* a distance that places both points at the altitude of the first
euclidean_km_one_altitude(lat1, lon1, alt1, lat2, lon2, alt2) ==
    LET a == ToEcef(lat1, lon1, alt1)
        b == ToEcef(lat2, lon2, alt1)
    IN Norm(a.x - b.x, a.y - b.y, a.z - b.z)

euclidean_km_from_latlonalt(lat1, lon1, alt1, lat2, lon2, alt2) ==
    LET a == ToEcef(lat1, lon1, alt1)
        b == ToEcef(lat2, lon2, alt2)
    IN Norm(a.x - b.x, a.y - b.y, a.z - b.z)

\* a.get('satalt', 0.0)
AltOf(d) == IF d.satalt = None THEN 0 ELSE d.satalt[1]

\* a coordinate, 0 for an absent one
CoordOrZero(x) == IF x = None THEN 0 ELSE x[1]

\* the inner loop of a screening that takes an absent coordinate for 0
RowPairsNoSkip(L, i, j, threshold) ==
    LET D(k) == euclidean_km_from_latlonalt(
                    CoordOrZero(L[i].satlat), CoordOrZero(L[i].satlng), AltOf(L[i]),
                    CoordOrZero(L[k].satlat), CoordOrZero(L[k].satlng), AltOf(L[k]))
        js == [n \in 1 .. (IF j > Len(L) THEN 0 ELSE Len(L) - j + 1) |-> j + n - 1]
        close == SelectSeq(js, LAMBDA k : D(k) <= threshold)
    IN [n \in 1 .. Len(close) |-> [a |-> i, b |-> close[n], d |-> D(close[n])]]

\* the loops of a screening that takes an absent coordinate for 0
RECURSIVE ClosePairsNoSkip(_, _, _, _)
ClosePairsNoSkip(L, i, j, threshold) ==
    IF i > Len(L) THEN <<>>
    ELSE RowPairsNoSkip(L, i, j, threshold)
            \o ClosePairsNoSkip(L, i + 1, i + 2, threshold)

\* lines 45-52: the inner loop for object i, from j on: the objects k with
\* both coordinates within the threshold of object i, in the order of k
RowPairs(L, i, j, threshold) ==
    LET D(k) == euclidean_km_from_latlonalt(
                    L[i].satlat[1], L[i].satlng[1], AltOf(L[i]),
                    L[k].satlat[1], L[k].satlng[1], AltOf(L[k]))
        js == [n \in 1 .. (IF j > Len(L) THEN 0 ELSE Len(L) - j + 1) |-> j + n - 1]
        close == SelectSeq(js, LAMBDA k : /\ L[k].satlat # None /\ L[k].satlng # None
                                          /\ D(k) <= threshold)
    IN [n \in 1 .. Len(close) |-> [a |-> i, b |-> close[n], d |-> D(close[n])]]

\* the pairs (i, j, d) of find_close_pairs in the order it appends them:
\* the inner loop from j on, then the outer loop from i + 1 on
RECURSIVE ClosePairsFrom(_, _, _, _)
ClosePairsFrom(L, i, j, threshold) ==
    IF i > Len(L) THEN <<>>
    ELSE (IF L[i].satlat = None \/ L[i].satlng = None
          THEN <<>>
          ELSE RowPairs(L, i, j, threshold))
            \o ClosePairsFrom(L, i + 1, i + 2, threshold)

\* the screening with "d < threshold" for "d <= threshold"
find_close_pairs_strict(sat_list, threshold) ==
    ClosePairsFrom(sat_list, 1, 2, threshold - 1)

find_close_pairs(sat_list, threshold) == ClosePairsFrom(sat_list, 1, 2, threshold)

(* ------------------------------------------------------------------ *)
(* The upstream source (n2yo_client.above)                             *)
(* ------------------------------------------------------------------ *)
IDs == {1, 2}

RateLimitMsg == <<"You", "have", "Exceeded", "the", "number", "of", "transactions">>
OtherMsg == <<"Invalid", "API", "Key">>

ItemFull(id) ==
    [satid |-> Some(id), satname |-> Some("SAT"), satlat |-> Some(10),
     satlng |-> Some(20), satalt |-> Some(550)]
ItemBare(id) ==
    [satid |-> Some(id), satname |-> None, satlat |-> None,
     satlng |-> None, satalt |-> None]
ItemHigh(id) ==
    [satid |-> Some(id), satname |-> Some("SAT"), satlat |-> Some(0),
     satlng |-> Some(20), satalt |-> Some(2000)]
ItemNoId ==
    [satid |-> None, satname |-> Some("SAT"), satlat |-> Some(10),
     satlng |-> Some(20), satalt |-> Some(550)]
ItemBadLat(id) ==
    [satid |-> Some(id), satname |-> Some("SAT"), satlat |-> NonNumeric,
     satlng |-> Some(20), satalt |-> Some(550)]

\* what fetch_geo / fetch_all return when above() raises (lines 346-348, 353-355)
EmptyResp == [error |-> None, above |-> <<>>]

\* the JSON payloads the upstream answers an /above request with
AboveAnswers ==
    { [error |-> Some(RateLimitMsg), above |-> <<>>],
      [error |-> Some(OtherMsg), above |-> <<>>],
      [error |-> None, above |-> <<ItemFull(1)>>],
      [error |-> None, above |-> <<ItemBare(1)>>],
      [error |-> None, above |-> <<ItemHigh(2)>>],
      [error |-> None, above |-> <<ItemFull(2), ItemNoId, ItemFull(1)>>],
      [error |-> None, above |-> <<ItemBadLat(2)>>] }

(* ------------------------------------------------------------------ *)
(* tracker_loop                                                        *)
(* ------------------------------------------------------------------ *)
\* live loops that start whenever an API key is set, demo mode or not
LiveWithKey == has_key

\* lines 68-77, 207-210: the loops of the live source are started, and
\* load-all is served, when demo mode is off and an API key is set
Live == ~demo_mode /\ has_key

\* a slice one region longer than the cap
BatchOneMore(i) == Slice(ABOVE_SEEDS, i, i + MAX_PARALLEL_REQUESTS + 1)

\* batch = ABOVE_SEEDS[i:i + MAX_PARALLEL_REQUESTS]
Batch(i) == Slice(ABOVE_SEEDS, i, i + MAX_PARALLEL_REQUESTS)
SeqSet(q) == {q[n] : n \in 1 .. Len(q)}

\* await asyncio.gather(*batch): every fetch of the batch is started
Gather(family, i) ==
    /\ t_inflight' = SeqSet(Batch(i))
    /\ t_res' = [k \in SeqSet(Batch(i)) |-> EmptyResp]
    /\ t_issued' = t_issued \o [n \in 1 .. Len(Batch(i)) |->
                                   [family |-> family, seed |-> Batch(i)[n]]]

\* lines 338-367: a pass starts and awaits the GEO fetches of the first batch
TrackerStart ==
    /\ Live
    /\ t_pc = "sleep"
    /\ last_err' = None
    /\ t_now' = clock
    /\ t_geo' = <<>>
    /\ t_all' = <<>>
    /\ t_batch_geo' = <<>>
    /\ t_i' = 0
    /\ t_failed' = FALSE
    /\ t_inflight' = SeqSet(Batch(0))
    /\ t_res' = [k \in SeqSet(Batch(0)) |-> EmptyResp]
    /\ t_issued' = [n \in 1 .. Len(Batch(0)) |-> [family |-> "geo", seed |-> Batch(0)[n]]]
    /\ t_pc' = "gather_geo"
    /\ last_pass' = "tracker"
    /\ UNCHANGED <<config, hvars, clock, tracked, answers_left, pvars, bvars, cvars>>

\* fetch_geo / fetch_all of seed k ends: above() raised (network error,
\* timeout, status other than 200) and {} is returned, or the payload is
TrackerFetchDone(k) ==
    /\ t_pc \in {"gather_geo", "gather_all"}
    /\ k \in t_inflight
    /\ t_inflight' = t_inflight \ {k}
    /\ \/ /\ t_res' = [t_res EXCEPT ![k] = EmptyResp]
          /\ t_failed' = TRUE
          /\ UNCHANGED answers_left
       \/ /\ answers_left > 0
          /\ answers_left' = answers_left - 1
          /\ \E r \in upstream.above : t_res' = [t_res EXCEPT ![k] = r]
          /\ UNCHANGED t_failed
    /\ UNCHANGED <<config, hvars, last_pass, clock, tracked, last_err, pvars, bvars, cvars,
                   t_pc, t_i, t_now, t_batch_geo, t_geo, t_all, t_issued>>

\* the results of a gather, in the order of the batch
Gathered(i) == [n \in 1 .. Len(Batch(i)) |-> t_res[Batch(i)[n]]]

\* line 367 returns, line 368 awaits the ALL fetches of the batch
TrackerGeoGathered ==
    /\ t_pc = "gather_geo"
    /\ t_inflight = {}
    /\ t_batch_geo' = Gathered(t_i)
    /\ Gather("all", t_i)
    /\ t_pc' = "gather_all"
    /\ UNCHANGED <<config, hvars, last_pass, clock, tracked, last_err, answers_left, pvars, bvars, cvars,
                   t_i, t_now, t_geo, t_all, t_failed>>

\* a loop whose try encloses the while: an exception of a pass ends the task
TrackerStopsOnError(raised) == IF raised THEN "crashed" ELSE "sleep"

\* lines 426-428: an exception of the pass is caught and printed, and the
\* loop sleeps as after a pass that raised nothing
TrackerAfterPass(raised) == "sleep"

\* line 368 returns: lines 370-375, and after the last batch lines 377-428
TrackerAllGathered ==
    /\ t_pc = "gather_all"
    /\ t_inflight = {}
    /\ LET geo == t_geo \o t_batch_geo
           all == t_all \o Gathered(t_i)
       IN /\ t_geo' = geo
          /\ t_all' = all
          /\ IF t_i + MAX_PARALLEL_REQUESTS < Len(ABOVE_SEEDS)
             THEN /\ t_pc' = "pause"
                  /\ UNCHANGED <<tracked, last_err>>
             ELSE LET st == ProcessSweep(tracked, last_err, geo, all, t_now)
                  IN /\ tracked' = st.T
                     /\ last_err' = st.err
                     /\ t_pc' = TrackerAfterPass(st.raised)
    /\ UNCHANGED <<config, hvars, last_pass, clock, answers_left, pvars, bvars, cvars,
                   t_i, t_now, t_inflight, t_res, t_batch_geo, t_issued, t_failed>>

\* line 375 returns: the next batch, line 367
TrackerNextBatch ==
    /\ t_pc = "pause"
    /\ t_i' = t_i + MAX_PARALLEL_REQUESTS
    /\ Gather("geo", t_i + MAX_PARALLEL_REQUESTS)
    /\ t_pc' = "gather_geo"
    /\ UNCHANGED <<config, hvars, last_pass, clock, tracked, last_err, answers_left, pvars, bvars, cvars,
                   t_now, t_batch_geo, t_geo, t_all, t_failed>>

TrackerNext ==
    \/ TrackerStart
    \/ \E k \in Range0(NUM_ABOVE_SEEDS) : TrackerFetchDone(k)
    \/ TrackerGeoGathered
    \/ TrackerAllGathered
    \/ TrackerNextBatch

(* ------------------------------------------------------------------ *)
(* positions_loop                                                      *)
(* ------------------------------------------------------------------ *)
PosFull == [satlatitude |-> Some(30), satlongitude |-> Some(40), sataltitude |-> Some(700)]
PosBare == [satlatitude |-> None, satlongitude |-> None, sataltitude |-> None]
PosBadLat == [satlatitude |-> NonNumeric, satlongitude |-> Some(40), sataltitude |-> Some(700)]

\* the JSON payloads the upstream answers a /positions request with
PositionsAnswers ==
    { [error |-> Some(OtherMsg), positions |-> <<>>],
      [error |-> None, positions |-> <<>>],
      [error |-> None, positions |-> <<PosFull, PosBare>>],
      [error |-> None, positions |-> <<PosBare>>],
      [error |-> None, positions |-> <<PosBadLat>>] }

\* a refresh that writes the record the way the sweep does, name included
PositionUpdatesWithName(latest, now) ==
    [satname |-> None,
     satlat |-> OptFloat(latest.satlatitude),
     satlng |-> OptFloat(latest.satlongitude),
     satalt |-> Some(FloatOrZero(latest.sataltitude)),
     last_update |-> Some(now)]

\* lines 452-457: the fields a refresh carries
PositionUpdates(latest, now) ==
    [satlat |-> OptFloat(latest.satlatitude),
     satlng |-> OptFloat(latest.satlongitude),
     satalt |-> Some(FloatOrZero(latest.sataltitude)),
     last_update |-> Some(now)]

\* lines 445-460: what update_position(satid) returns for the payload resp:
\* None, or (satid, updates)
UpdatePositionResult(satid, resp, now) ==
    IF Truthy(resp.error) THEN None
    ELSE IF resp.positions = <<>> THEN None
    ELSE LET latest == resp.positions[1]
         IN IF OptFloatRaises(latest.satlatitude)
               \/ OptFloatRaises(latest.satlongitude)
               \/ FloatOrZeroRaises(latest.sataltitude)
            THEN None
            ELSE Some([satid |-> satid, updates |-> PositionUpdates(latest, now)])

\* a batch of every id the upstream knows, whatever the snapshot holds
PosBatchEveryId(sats, i) == IF sats = <<>> THEN <<>> ELSE <<1, 2>>

\* batch = sats_to_update[i:i + batch_size]
PosBatch(sats, i) == Slice(sats, i, i + POSITIONS_BATCH_SIZE)

\* lines 466-470: the results of a gather are merged, from result n on
RECURSIVE MergeResults(_, _, _)
MergeResults(T, results, n) ==
    IF n > Len(results) THEN T
    ELSE LET result == results[n]
         IN IF result # None /\ Has(T, result[1].satid)
            THEN MergeResults(Update(T, result[1].satid, result[1].updates), results, n + 1)
            ELSE MergeResults(T, results, n + 1)

\* line 476 or line 473 returns. After line 476 a pass starts (lines 434-440)
\* and the fetches of its first batch are awaited (line 465); after line 473
\* those of the next batch are.
PositionsResume ==
    /\ Live
    /\ p_pc \in {"sleep", "pause"}
    /\ LET sats == IF p_pc = "sleep" THEN Keys(tracked) ELSE p_sats
           i == IF p_pc = "sleep" THEN 0 ELSE p_i + POSITIONS_BATCH_SIZE
       IN /\ p_sats' = sats
          /\ p_i' = i
          /\ p_now' = IF p_pc = "sleep" THEN clock ELSE p_now
          /\ p_failed' = IF p_pc = "sleep" THEN FALSE ELSE p_failed
          /\ p_inflight' = SeqSet(PosBatch(sats, i))
          /\ p_res' = [id \in SeqSet(PosBatch(sats, i)) |-> None]
          /\ p_pc' = IF sats = <<>> THEN "sleep" ELSE "gather"
    /\ last_pass' = IF p_pc = "sleep" THEN "positions" ELSE last_pass
    /\ UNCHANGED <<config, hvars, clock, tracked, last_err, answers_left, tvars, bvars, cvars>>

\* update_position(satid) ends: positions() raised and None is returned, or
\* the payload is handled by lines 445-457
PositionsFetchDone(satid) ==
    /\ p_pc = "gather"
    /\ satid \in p_inflight
    /\ p_inflight' = p_inflight \ {satid}
    /\ \/ /\ p_res' = [p_res EXCEPT ![satid] = None]
          /\ p_failed' = TRUE
          /\ UNCHANGED <<answers_left, last_err>>
       \/ /\ answers_left > 0
          /\ answers_left' = answers_left - 1
          /\ \E resp \in upstream.positions :
                /\ p_res' = [p_res EXCEPT ![satid] = UpdatePositionResult(satid, resp, p_now)]
                /\ last_err' = IF Truthy(resp.error) THEN resp.error ELSE last_err
                /\ p_failed' = (p_failed \/ Truthy(resp.error))
    /\ UNCHANGED <<config, hvars, last_pass, clock, tracked, tvars, bvars, cvars, p_pc, p_sats, p_i, p_now>>

\* line 465 returns: lines 466-473, and after the last batch line 476
PositionsGathered ==
    /\ p_pc = "gather"
    /\ p_inflight = {}
    /\ LET batch == PosBatch(p_sats, p_i)
           results == [n \in 1 .. Len(batch) |-> p_res[batch[n]]]
       IN tracked' = MergeResults(tracked, results, 1)
    /\ p_pc' = IF p_i + POSITIONS_BATCH_SIZE < Len(p_sats) THEN "pause" ELSE "sleep"
    /\ UNCHANGED <<config, hvars, last_pass, clock, last_err, answers_left, tvars, bvars, cvars,
                   p_sats, p_i, p_now, p_inflight, p_res, p_failed>>

PositionsNext ==
    \/ PositionsResume
    \/ \E satid \in IDs : PositionsFetchDone(satid)
    \/ PositionsGathered

(* ------------------------------------------------------------------ *)
(* The live subscribers: stream()                                      *)
(* ------------------------------------------------------------------ *)
WS == {1, 2}

\* lines 287-288: a client connects
Connect(ws) ==
    /\ ws_state[ws] = "new"
    /\ ws_state' = [ws_state EXCEPT ![ws] = "open"]
    /\ clients' = clients \cup {ws}
    /\ UNCHANGED <<config, hvars, last_pass, clock, tracked, last_err, answers_left,
                   tvars, pvars, bvars>>

\* the peer goes away. The handler is suspended in asyncio.sleep (line 292),
\* which does not raise WebSocketDisconnect: line 295 is not reached
Disconnect(ws) ==
    /\ ws_state[ws] = "open"
    /\ ws_state' = [ws_state EXCEPT ![ws] = "closed"]
    /\ UNCHANGED <<config, hvars, last_pass, clock, tracked, last_err, answers_left,
                   tvars, pvars, bvars, clients>>

(* ------------------------------------------------------------------ *)
(* broadcast_snapshot                                                  *)
(* ------------------------------------------------------------------ *)
CountCategory(L, cat) == Cardinality({n \in 1 .. Len(L) : L[n].category = Some(cat)})

\* lines 134-137, 307-310
AlertPairs(L) ==
    LET pairs == find_close_pairs(L, PROXIMITY_THRESHOLD_KM)
    IN [n \in 1 .. Len(pairs) |->
          [a |-> L[pairs[n].a].satname, b |-> L[pairs[n].b].satname,
           dist_km |-> pairs[n].d]]

\* lines 311-321 without "sats": counts and alerts are values, computed once
PayloadMeta(L) ==
    [counts |-> [total |-> Len(L), leo |-> CountCategory(L, "LEO"),
                 geo |-> CountCategory(L, "GEO"), alerts |-> Len(AlertPairs(L))],
     alerts |-> AlertPairs(L)]

\* what a list of references into the catalog holds now
Deref(T, refs) == [n \in 1 .. Len(refs) |-> Lookup(T, refs[n])]

\* send_json serialises its argument when it is called: the dicts that the
\* references of sats lead to, as they are at that moment
Serialise(T, refs, meta) ==
    [sats |-> Deref(T, refs), counts |-> meta.counts, alerts |-> meta.alerts]

\* line 332 returns: lines 305-325, up to the first await of send_json; with
\* no client the loops are empty and line 332 is reached again
BroadcastTick ==
    /\ b_pc = "sleep"
    /\ LET refs == Keys(tracked)
           meta == PayloadMeta(Values(tracked))
       IN /\ b_sats' = refs
          /\ b_meta' = meta
          /\ b_snap' = Values(tracked)
          /\ b_start' = clients
          /\ b_dead' = {}
          /\ received' = [ws \in WS |-> None]
          /\ IF clients = {}
             THEN /\ b_pc' = "sleep"
                  /\ b_todo' = {}
                  /\ b_cur' = None
                  /\ b_msg' = None
             ELSE \E ws \in clients :
                     /\ b_pc' = "send"
                     /\ b_todo' = clients \ {ws}
                     /\ b_cur' = Some(ws)
                     /\ b_msg' = Some(Serialise(tracked, refs, meta))
    /\ last_pass' = "broadcast"
    /\ UNCHANGED <<config, hvars, clock, tracked, last_err, answers_left,
                   tvars, pvars, cvars>>

\* lines 328-329
DiscardAll(set, dead) == set \ dead

\* a loop with the try around it: the first send_json that raises ends it
RemainingAfterUncaught(todo, ok) == IF ok THEN todo ELSE {}

\* lines 324-327: the try is inside the for loop, so whether send_json
\* returned or raised, the loop goes on with the clients it has not reached
RemainingAfterSend(todo, ok) == todo

\* send_json returns or raises (it raises on a closed connection): lines
\* 326-327, then the next client's send_json is called, or lines 328-332.
\* The await of line 325 has no timeout: to a peer that has stopped reading
\* it does not return
BroadcastSendDone ==
    /\ b_pc = "send"
    /\ ws_state[b_cur[1]] # "stalled"
    /\ LET ok == ws_state[b_cur[1]] = "open"
           dead == IF ok THEN b_dead ELSE b_dead \cup {b_cur[1]}
           todo == RemainingAfterSend(b_todo, ok)
       IN /\ received' = IF ok THEN [received EXCEPT ![b_cur[1]] = b_msg]
                               ELSE received
          /\ b_dead' = dead
          /\ IF todo = {}
             THEN /\ clients' = DiscardAll(clients, dead)
                  /\ b_pc' = "sleep"
                  /\ b_todo' = {}
                  /\ b_cur' = None
                  /\ b_msg' = None
             ELSE \E ws \in todo :
                     /\ b_todo' = todo \ {ws}
                     /\ b_cur' = Some(ws)
                     /\ b_msg' = Some(Serialise(tracked, b_sats, b_meta))
                     /\ UNCHANGED <<clients, b_pc>>
    /\ UNCHANGED <<config, hvars, last_pass, clock, tracked, last_err, answers_left,
                   tvars, pvars, ws_state, b_sats, b_meta, b_snap, b_start>>

BroadcastNext == BroadcastTick \/ BroadcastSendDone

ClientNext == \E ws \in WS : Connect(ws) \/ Disconnect(ws)

\* the peer of an open connection stops reading and keeps the connection:
\* a send_json to it (line 325) waits for the peer to read again
Stall(ws) ==
    /\ ws_state[ws] = "open"
    /\ ws_state' = [ws_state EXCEPT ![ws] = "stalled"]
    /\ UNCHANGED <<config, hvars, last_pass, clock, tracked, last_err, answers_left,
                   tvars, pvars, bvars, clients>>

StallNext == \E ws \in WS : Stall(ws)

(* ------------------------------------------------------------------ *)
(* DEMO simulator: _ensure_demo_catalog, _demo_step, demo_loop         *)
(* ------------------------------------------------------------------ *)
\* One unit of the model's clock is 95 s: a LEO object of the simulator
\* moves 6 degrees in it (omega_leo * 95) and a GEO object 0.396 degrees
\* (omega_geo * 95), and the LEO period of 95 * 60 s is 60 units.
NUM_DEMO_GEO == 12
NUM_DEMO_LEO == 30
DEMO_GEO_ID == 900000
DEMO_LEO_ID == 910000
DEMO_GEO_ALT == 35786
DEMO_LEO_ALT == 550
OMEGA_LEO == 6
OMEGA_GEO_MILLI == 396
DEMO_LEO_PERIOD == 60

\* lines 486-496 and 498-508, i from 0
DemoGeo(i, now) ==
    [satid |-> Some(DEMO_GEO_ID + i), satname |-> Some(<<"GEO", i + 1>>),
     satlat |-> Some(0), satlng |-> Some(i * 30), satalt |-> Some(DEMO_GEO_ALT),
     category |-> Some("GEO"), last_update |-> Some(now)]
DemoLeo(i, now) ==
    [satid |-> Some(DEMO_LEO_ID + i), satname |-> Some(<<"LEO", i + 1>>),
     satlat |-> Some((i % 6) * 10 - 25), satlng |-> Some((i * 12) % 360),
     satalt |-> Some(DEMO_LEO_ALT),
     category |-> Some("LEO"), last_update |-> Some(now)]

\* _ensure_demo_catalog(): nothing when the catalog holds an entry
EnsureDemoCatalog(T, now) ==
    IF T # <<>> THEN T
    ELSE [n \in 1 .. (NUM_DEMO_GEO + NUM_DEMO_LEO) |->
            IF n <= NUM_DEMO_GEO
            THEN [key |-> DEMO_GEO_ID + (n - 1), val |-> DemoGeo(n - 1, now)]
            ELSE [key |-> DEMO_LEO_ID + (n - 1 - NUM_DEMO_GEO),
                  val |-> DemoLeo(n - 1 - NUM_DEMO_GEO, now)]]

\* the body of the for loop of _demo_step (time.time() is never 0, so
\* "last_update or now" is now only for an absent last_update)
DemoStepEntry(d, now) ==
    LET last == IF d.last_update = None THEN now ELSE d.last_update[1]
        dt == IF now - last < 0 THEN 0 ELSE now - last
        lng == IF d.satlng = None THEN 0 ELSE d.satlng[1]
    IN IF d.category = Some("GEO")
       THEN [d EXCEPT !.satlng = Some((lng + (OMEGA_GEO_MILLI * dt) \div 1000) % 360),
                      !.satlat = Some(0),
                      !.last_update = Some(now)]
       ELSE [d EXCEPT !.satlng = Some((lng + OMEGA_LEO * dt) % 360),
                      !.satlat = Some((30 * Sin100((360 \div DEMO_LEO_PERIOD)
                                                   * (now % DEMO_LEO_PERIOD))) \div 100),
                      !.last_update = Some(now)]

\* _demo_step(now)
DemoStep(T, now) ==
    [n \in 1 .. Len(T) |-> [key |-> T[n].key, val |-> DemoStepEntry(T[n].val, now)]]

\* lines 511-514: demo_loop starts (lifespan creates it in demo mode), or
\* its sleep returns
DemoLoop ==
    /\ demo_mode
    /\ tracked' = DemoStep(IF d_pc = "start" THEN EnsureDemoCatalog(tracked, clock)
                                              ELSE tracked, clock)
    /\ d_pc' = "sleep"
    /\ UNCHANGED <<config, lvars, q_resp, last_pass, clock, last_err, answers_left,
                   tvars, pvars, bvars, cvars>>

(* ------------------------------------------------------------------ *)
(* api_snapshot: the on-demand query                                   *)
(* ------------------------------------------------------------------ *)
\* a handler that runs the demo simulator whatever the configuration
OnDemandAlways == TRUE

\* line 129
OnDemandDemo == demo_mode \/ ~has_key

\* lines 129-148: the handler has no await
ApiSnapshot ==
    /\ LET T == IF OnDemandDemo
                THEN DemoStep(EnsureDemoCatalog(tracked, clock), clock)
                ELSE tracked
           meta == PayloadMeta(Values(T))
       IN /\ tracked' = T
          /\ q_resp' = Some([sats |-> Values(T), counts |-> meta.counts,
                             alerts |-> meta.alerts])
    /\ UNCHANGED <<config, lvars, d_pc, last_pass, clock, last_err, answers_left,
                   tvars, pvars, bvars, cvars>>

(* ------------------------------------------------------------------ *)
(* load_all_satellites                                                 *)
(* ------------------------------------------------------------------ *)
\* the fetches of lines 230-231: the GEO ones of the seeds, then the ALL ones
LoadFetches == 1 .. (2 * NUM_ABOVE_SEEDS)

\* the fetches the upstream may answer with a payload: the GEO ones of the
\* first two seeds and the ALL one of the first seed
LoadAnswered == {1, 2, NUM_ABOVE_SEEDS + 1}

\* lines 207-236: a request arrives with a live source configured (with
\* none it returns an error and changes nothing); every fetch is started
LoadAllStart ==
    /\ Live
    /\ l_pc = "idle"
    /\ l_pc' = "gather"
    /\ l_now' = clock
    /\ l_pending' = Cardinality(LoadFetches)
    /\ l_res' = [n \in LoadFetches |-> EmptyResp]
    /\ UNCHANGED <<config, d_pc, q_resp, last_pass, clock, tracked, last_err,
                   answers_left, tvars, pvars, bvars, cvars>>

\* a fetch of load_all_satellites ends: above() raised and {} is returned
\* (lines 221-222, 227-228), or the payload is
LoadAllFetchDone ==
    /\ l_pc = "gather"
    /\ l_pending > 0
    /\ l_pending' = l_pending - 1
    /\ \/ UNCHANGED <<l_res, answers_left>>
       \/ /\ answers_left > 0
          /\ answers_left' = answers_left - 1
          /\ \E n \in LoadAnswered, r \in upstream.above :
                /\ l_res[n] = EmptyResp
                /\ l_res' = [l_res EXCEPT ![n] = r]
    /\ UNCHANGED <<config, d_pc, q_resp, last_pass, clock, tracked, last_err,
                   tvars, pvars, bvars, cvars, l_pc, l_now>>

\* lines 239-254, 256-273: the loop over the responses of one family, from
\* response n on; a response with an error is passed over. st = [T, raised]
RECURSIVE LoadResponses(_, _, _, _, _)
LoadResponses(family, st, resps, n, now) ==
    IF n > Len(resps) \/ st.raised
    THEN st
    ELSE CHOOSE out \in
            { LoadResponses(family, nxt, resps, n + 1, now) :
                 nxt \in {IF Truthy(resps[n].error) THEN st
                          ELSE MergeItems(family, st.T, resps[n].above, 1, now)} } : TRUE

\* lines 239-273; an exception raised by a record ends the handler (line 282)
LoadProcess(T, geo, all, now) ==
    CHOOSE out \in
       { IF g.raised THEN g ELSE LoadResponses("all", g, all, 1, now) :
            g \in {LoadResponses("geo", [T |-> T, raised |-> FALSE], geo, 1, now)} } : TRUE

\* line 233 returns: lines 239-283
LoadAllGathered ==
    /\ l_pc = "gather"
    /\ l_pending = 0
    /\ tracked' = LoadProcess(tracked, SubSeq(l_res, 1, NUM_ABOVE_SEEDS),
                              SubSeq(l_res, NUM_ABOVE_SEEDS + 1, 2 * NUM_ABOVE_SEEDS),
                              l_now).T
    /\ l_pc' = "idle"
    /\ UNCHANGED <<config, d_pc, q_resp, last_pass, clock, last_err, answers_left,
                   tvars, pvars, bvars, cvars, l_now, l_pending, l_res>>

LoadAllNext == LoadAllStart \/ LoadAllFetchDone \/ LoadAllGathered

(* ------------------------------------------------------------------ *)
(* The wall clock                                                      *)
(* ------------------------------------------------------------------ *)
Tick ==
    /\ clock < MaxClock
    /\ clock' = clock + 1
    /\ UNCHANGED <<config, hvars, last_pass, tracked, last_err, answers_left, tvars, pvars, bvars, cvars>>

vars == <<config, hvars, last_pass, clock, tracked, last_err, answers_left, tvars, pvars, bvars, cvars>>

Init ==
    /\ demo_mode = FALSE
    /\ has_key = TRUE
    /\ clock = 0
    /\ tracked = <<>>
    /\ last_err = None
    /\ upstream = [above |-> AboveAnswers, positions |-> PositionsAnswers]
    /\ answers_left = MaxAnswers
    /\ t_pc = "sleep"
    /\ t_i = 0
    /\ t_now = 0
    /\ t_inflight = {}
    /\ t_res = <<>>
    /\ t_batch_geo = <<>>
    /\ t_geo = <<>>
    /\ t_all = <<>>
    /\ t_issued = <<>>
    /\ t_failed = FALSE
    /\ p_pc = "sleep"
    /\ p_sats = <<>>
    /\ p_i = 0
    /\ p_now = 0
    /\ p_inflight = {}
    /\ p_res = <<>>
    /\ p_failed = FALSE
    /\ clients = {}
    /\ ws_state = [ws \in WS |-> "new"]
    /\ b_pc = "sleep"
    /\ b_sats = <<>>
    /\ b_meta = PayloadMeta(<<>>)
    /\ b_todo = {}
    /\ b_cur = None
    /\ b_msg = None
    /\ b_dead = {}
    /\ b_snap = <<>>
    /\ b_start = {}
    /\ received = [ws \in WS |-> None]
    /\ last_pass = "none"
    /\ l_pc = "idle"
    /\ l_now = 0
    /\ l_pending = 0
    /\ l_res = <<>>
    /\ d_pc = "start"
    /\ q_resp = None

\* The state when the first sweep pass has ended and the other loops have
\* not run yet: of its fetches, the GEO one of seed 0 was answered with g and
\* the ALL one of seed 0 with a, and the others raised
FirstPassResponses(r) ==
    [n \in 1 .. NUM_ABOVE_SEEDS |-> IF n = 1 THEN r ELSE EmptyResp]

AfterFirstPass(g, a, ups, budget) ==
       LET st == ProcessSweep(<<>>, None, FirstPassResponses(g),
                              FirstPassResponses(a), 0)
           last == NUM_ABOVE_SEEDS - (NUM_ABOVE_SEEDS % MAX_PARALLEL_REQUESTS)
       IN /\ demo_mode = FALSE
          /\ has_key = TRUE
          /\ clock = 0
          /\ tracked = st.T
          /\ last_err = st.err
          /\ upstream = ups
          /\ answers_left = budget
          /\ t_pc = "sleep"
          /\ t_i = last
          /\ t_now = 0
          /\ t_inflight = {}
          /\ t_res = [k \in SeqSet(Batch(last)) |-> EmptyResp]
          /\ t_batch_geo = [n \in 1 .. Len(Batch(last)) |-> EmptyResp]
          /\ t_geo = FirstPassResponses(g)
          /\ t_all = FirstPassResponses(a)
          /\ t_issued = [n \in 1 .. 2 * NUM_ABOVE_SEEDS |->
                LET b == (n - 1) \div (2 * MAX_PARALLEL_REQUESTS)
                    m == (n - 1) % (2 * MAX_PARALLEL_REQUESTS)
                    size == Len(Batch(b * MAX_PARALLEL_REQUESTS))
                IN [family |-> IF m < size THEN "geo" ELSE "all",
                    seed |-> b * MAX_PARALLEL_REQUESTS + (m % size)]]
          /\ t_failed = TRUE
          /\ p_pc = "sleep"
          /\ p_sats = <<>>
          /\ p_i = 0
          /\ p_now = 0
          /\ p_inflight = {}
          /\ p_res = <<>>
          /\ p_failed = FALSE
          /\ clients = {}
          /\ ws_state = [ws \in WS |-> "new"]
          /\ b_pc = "sleep"
          /\ b_sats = <<>>
          /\ b_meta = PayloadMeta(<<>>)
          /\ b_todo = {}
          /\ b_cur = None
          /\ b_msg = None
          /\ b_dead = {}
          /\ b_snap = <<>>
          /\ b_start = {}
          /\ received = [ws \in WS |-> None]
          /\ last_pass = "tracker"
          /\ l_pc = "idle"
          /\ l_now = 0
          /\ l_pending = 0
          /\ l_res = <<>>
          /\ d_pc = "start"
          /\ q_resp = None

SeededInit ==
    \E g \in AboveAnswers, a \in AboveAnswers :
       AfterFirstPass(g, a, [above |-> AboveAnswers, positions |-> PositionsAnswers],
                      MaxAnswersSeeded)

Next ==
    \/ TrackerNext \/ PositionsNext \/ BroadcastNext \/ ClientNext \/ Tick
    \/ LoadAllNext \/ DemoLoop \/ ApiSnapshot

Spec == Init /\ [][Next]_vars

\* The three loops and one subscriber, with an upstream whose payloads are
\* a rate-limit error, an error and a response holding a malformed record;
\* the other connection has come and gone
FaultyUpstream ==
    [above |-> {[error |-> Some(RateLimitMsg), above |-> <<>>],
                [error |-> None, above |-> <<ItemFull(2), ItemNoId, ItemFull(1)>>]},
     positions |-> {[error |-> Some(OtherMsg), positions |-> <<>>],
                    [error |-> None, positions |-> <<PosBadLat>>]}]

FairInit ==
    /\ demo_mode = FALSE
    /\ has_key = TRUE
    /\ upstream = FaultyUpstream
    /\ clock = 0
    /\ tracked = <<>>
    /\ last_err = None
    /\ answers_left = MaxAnswersSeeded
    /\ t_pc = "sleep"
    /\ t_i = 0
    /\ t_now = 0
    /\ t_inflight = {}
    /\ t_res = <<>>
    /\ t_batch_geo = <<>>
    /\ t_geo = <<>>
    /\ t_all = <<>>
    /\ t_issued = <<>>
    /\ t_failed = FALSE
    /\ p_pc = "sleep"
    /\ p_sats = <<>>
    /\ p_i = 0
    /\ p_now = 0
    /\ p_inflight = {}
    /\ p_res = <<>>
    /\ p_failed = FALSE
    /\ clients = {}
    /\ ws_state = [ws \in WS |-> IF ws = 1 THEN "new" ELSE "closed"]
    /\ b_pc = "sleep"
    /\ b_sats = <<>>
    /\ b_meta = PayloadMeta(<<>>)
    /\ b_todo = {}
    /\ b_cur = None
    /\ b_msg = None
    /\ b_dead = {}
    /\ b_snap = <<>>
    /\ b_start = {}
    /\ received = [ws \in WS |-> None]
    /\ last_pass = "none"
    /\ l_pc = "idle"
    /\ l_now = 0
    /\ l_pending = 0
    /\ l_res = <<>>
    /\ d_pc = "start"
    /\ q_resp = None

FairNext == TrackerNext \/ PositionsNext \/ BroadcastNext \/ ClientNext

\* Each fetch ends (aiohttp's 30 s timeout), each sleep returns and each
\* send_json returns or raises: every loop that can take a step takes one
FairSpec ==
    /\ FairInit
    /\ [][FairNext]_vars
    /\ WF_vars(TrackerNext)
    /\ WF_vars(PositionsNext)
    /\ WF_vars(BroadcastNext)

\* every task before it first runs, no client, no request served
Idle ==
    /\ clock = 0
    /\ t_pc = "sleep" /\ t_i = 0 /\ t_now = 0 /\ t_inflight = {} /\ t_res = <<>>
    /\ t_batch_geo = <<>> /\ t_geo = <<>> /\ t_all = <<>> /\ t_issued = <<>>
    /\ t_failed = FALSE
    /\ p_pc = "sleep" /\ p_sats = <<>> /\ p_i = 0 /\ p_now = 0 /\ p_inflight = {}
    /\ p_res = <<>> /\ p_failed = FALSE
    /\ clients = {} /\ ws_state = [ws \in WS |-> "new"]
    /\ b_pc = "sleep" /\ b_sats = <<>> /\ b_meta = PayloadMeta(<<>>) /\ b_todo = {}
    /\ b_cur = None /\ b_msg = None /\ b_dead = {} /\ b_snap = <<>> /\ b_start = {}
    /\ received = [ws \in WS |-> None]
    /\ last_pass = "none"
    /\ l_pc = "idle" /\ l_now = 0 /\ l_pending = 0 /\ l_res = <<>>
    /\ d_pc = "start"
    /\ q_resp = None

\* The objects of a synthetic catalog: three at one point of the sky at
\* altitudes 550, 555 and 560 km (5 km and more than 5 km apart; two objects
\* of one altitude are 0 km apart), one without latitude and one without
\* longitude
ScanObjects ==
    { [satlat |-> Some(10), satlng |-> Some(20), satalt |-> Some(550)],
      [satlat |-> Some(10), satlng |-> Some(20), satalt |-> Some(555)],
      [satlat |-> Some(10), satlng |-> Some(20), satalt |-> Some(560)],
      [satlat |-> None, satlng |-> Some(20), satalt |-> Some(550)],
      [satlat |-> Some(10), satlng |-> None, satalt |-> Some(553)] }

\* the length of the synthetic catalogs
ScanLen == 5

\* a catalog of the objects objs[1], objs[2], ... with the ids 1, 2, ...
\* and the names S-1, S-2, ..., as sweep merges leave them
ScanCatalog(objs) ==
    [n \in DOMAIN objs |->
        [key |-> n,
         val |-> [satid |-> Some(n), satname |-> Some(<<"S", n>>),
                  satlat |-> objs[n].satlat, satlng |-> objs[n].satlng,
                  satalt |-> objs[n].satalt, category |-> Some("LEO"),
                  last_update |-> Some(0)]]]

ScanInit ==
    /\ Idle
    /\ demo_mode = FALSE
    /\ has_key = TRUE
    /\ upstream = [above |-> AboveAnswers, positions |-> PositionsAnswers]
    /\ answers_left = 0
    /\ last_err = None
    /\ \E objs \in [1 .. ScanLen -> ScanObjects] : tracked = ScanCatalog(objs)

\* the on-demand query over the synthetic catalogs
ScanSpec == ScanInit /\ [][ApiSnapshot]_vars

\* the length of the synthetic catalogs the readers are run over together
ScreenLen == 3

ScreenInit ==
    /\ Idle
    /\ demo_mode = FALSE
    /\ has_key = TRUE
    /\ upstream = [above |-> AboveAnswers, positions |-> PositionsAnswers]
    /\ answers_left = 0
    /\ last_err = None
    /\ \E objs \in [1 .. ScreenLen -> ScanObjects] : tracked = ScanCatalog(objs)

\* the readers of the catalog: the broadcaster with its subscribers and the
\* on-demand query
ReadersSpec == ScreenInit /\ [][BroadcastNext \/ ClientNext \/ ApiSnapshot]_vars

\* no live source: demo mode, with or without an API key, or neither
DemoInit ==
    /\ Idle
    /\ \E c \in {<<TRUE, TRUE>>, <<TRUE, FALSE>>, <<FALSE, FALSE>>} :
          demo_mode = c[1] /\ has_key = c[2]
    /\ upstream = [above |-> AboveAnswers, positions |-> PositionsAnswers]
    /\ answers_left = 0
    /\ last_err = None
    /\ tracked = <<>>

\* every writer of the catalog, with the readers: a live source after a
\* first sweep pass that found object 1, whose later answers add object 2;
\* or no live source
WritersInit ==
    \/ AfterFirstPass([error |-> None, above |-> <<ItemFull(1)>>],
                      [error |-> None, above |-> <<ItemBare(1)>>],
                      [above |-> {[error |-> None,
                                   above |-> <<ItemFull(2), ItemNoId, ItemFull(1)>>]},
                       positions |-> {[error |-> None, positions |-> <<PosFull, PosBare>>]}],
                      MaxAnswersSeeded)
    \/ DemoInit

WritersNext ==
    \/ TrackerNext \/ PositionsNext \/ LoadAllNext
    \/ DemoLoop \/ ApiSnapshot \/ BroadcastTick

WritersSpec == WritersInit /\ [][WritersNext]_vars

\* positions for the distance: LEO and GEO altitudes, both hemispheres,
\* longitudes on both sides of the meridian
DistancePoints ==
    { [satlat |-> Some(lat), satlng |-> Some(lng), satalt |-> Some(alt)] :
         lat \in {-25, 0, 10}, lng \in {0, 20, 200, 359}, alt \in {550, 553, 35786} }

\* a catalog of two located objects
DistanceInit ==
    /\ Idle
    /\ demo_mode = FALSE
    /\ has_key = TRUE
    /\ upstream = [above |-> AboveAnswers, positions |-> PositionsAnswers]
    /\ answers_left = 0
    /\ last_err = None
    /\ \E p \in DistancePoints, q \in DistancePoints : tracked = ScanCatalog(<<p, q>>)

\* the on-demand query screens the two objects
DistanceSpec == DistanceInit /\ [][ApiSnapshot]_vars

\* the sweep and the refresh after a first sweep pass that found object 1;
\* the upstream answers both loops with the position of object 1
StampInit ==
    AfterFirstPass([error |-> None, above |-> <<ItemFull(1)>>], EmptyResp,
                   [above |-> {[error |-> None, above |-> <<ItemFull(1)>>]},
                    positions |-> {[error |-> None, positions |-> <<PosFull, PosBare>>]}],
                   MaxAnswers)

StampSpec == StampInit /\ [][TrackerNext \/ PositionsNext \/ Tick]_vars

\* the broadcaster and its subscribers, one of which may stop reading
SlowInit ==
    /\ Idle
    /\ demo_mode = FALSE
    /\ has_key = TRUE
    /\ upstream = [above |-> AboveAnswers, positions |-> PositionsAnswers]
    /\ answers_left = 0
    /\ last_err = None
    /\ tracked = <<>>

\* Each sleep of the broadcaster returns, and each send_json to a peer that
\* reads or has gone returns or raises
SlowSpec ==
    /\ SlowInit
    /\ [][BroadcastNext \/ ClientNext \/ StallNext]_vars
    /\ WF_vars(BroadcastNext)

\* the regional sweep with the two readers of the catalog
SweepReadersSpec == Init /\ [][TrackerNext \/ BroadcastTick \/ ApiSnapshot]_vars

\* the sweep and the refresh after a first sweep pass that found object 1;
\* a later sweep answer brings object 2
RefreshSweepInit ==
    AfterFirstPass([error |-> None, above |-> <<ItemFull(1)>>], EmptyResp,
                   [above |-> {[error |-> None,
                                above |-> <<ItemFull(2), ItemNoId, ItemFull(1)>>]},
                    positions |-> {[error |-> None, positions |-> <<PosFull, PosBare>>]}],
                   MaxAnswers)

RefreshSweepSpec == RefreshSweepInit /\ [][TrackerNext \/ PositionsNext \/ Tick]_vars

\* the regional sweep alone
TrackerSpec == Init /\ [][TrackerNext]_vars

\* the fetch scheduler: both cycles and the clock
SchedulerSpec == Init /\ [][TrackerNext \/ PositionsNext \/ Tick]_vars

\* the per-object refresh over a catalog that a sweep pass has filled
RefreshSpec == SeededInit /\ [][PositionsNext \/ Tick]_vars

\* the broadcaster and its subscribers, with the per-object refresh writing
BroadcastSpec == SeededInit /\ [][BroadcastNext \/ ClientNext \/ PositionsNext]_vars

(* ------------------------------------------------------------------ *)
(* Properties                                                          *)
(* ------------------------------------------------------------------ *)
\* the step in which a sweep pass processes its responses (lines 377-423)
SweepMergeStep == t_pc = "gather_all" /\ t_pc' # "gather_all" /\ t_pc' # "pause"

\* the step in which a refresh batch merges its results (lines 466-470)
RefreshMergeStep == p_pc = "gather" /\ p_inflight = {} /\ p_pc' # "gather"

\* the records of a list of responses
ItemsOf(resps) == UNION {SeqSet(resps[n].above) : n \in 1 .. Len(resps)}

\* the refresh of the current batch brought a position for id
Refreshed(id) == id \in DOMAIN p_res /\ p_res[id] # None

\* C1: a merge into an existing entry never erases a known field the update
\* does not carry. For every entry in the catalog before the merge: when
\* every record a sweep pass received for its id lacks the name (latitude,
\* longitude), the name (latitude, longitude) stored is the same after the
\* pass's merge; when the position a refresh received for its id lacks the
\* latitude (longitude), the latitude (longitude) stored is the same after
\* the refresh's merge.
MergeKeepsAbsentFields ==
    [][ \A id \in KeySet(tracked) :
          /\ SweepMergeStep =>
                \A f \in {"satname", "satlat", "satlng"} :
                   (\A item \in ItemsOf(t_geo') \cup ItemsOf(t_all') :
                       item.satid = Some(id) => item[f] = None)
                   => Lookup(tracked', id)[f] = Lookup(tracked, id)[f]
          /\ RefreshMergeStep =>
                \A f \in {"satlat", "satlng"} :
                   (Refreshed(id) /\ p_res[id][1].updates[f] = None)
                   => Lookup(tracked', id)[f] = Lookup(tracked, id)[f]
      ]_vars

\* C2: a successful refresh of id X changes only X's latitude, longitude,
\* altitude and last-update time. The merge of a refresh batch leaves the
\* keys of the catalog and their order as they were, leaves the id, name and
\* category of every entry as they were, and leaves every entry that was not
\* refreshed identical; no other step of the refresh cycle changes the
\* catalog.
RefreshChangesOnlyPosition ==
    [][ IF RefreshMergeStep
        THEN /\ Keys(tracked') = Keys(tracked)
             /\ \A id \in KeySet(tracked) :
                   /\ \A f \in {"satid", "satname", "category"} :
                         Lookup(tracked', id)[f] = Lookup(tracked, id)[f]
                   /\ ~Refreshed(id) => Lookup(tracked', id) = Lookup(tracked, id)
        ELSE tracked' = tracked
      ]_vars

\* C2 witness: an entry holds the refreshed position (latitude 30) and still
\* its name and category
RefreshedEntryKeepsName ==
    \E id \in KeySet(tracked) :
       /\ Lookup(tracked, id).satlat = Some(30)
       /\ Lookup(tracked, id).satname = Some("SAT")
       /\ Lookup(tracked, id).category # None
       /\ Lookup(tracked, id).last_update = Some(p_now)

\* the group of regions (0, 1, ...) a seed belongs to
GroupOf(seed) == seed \div MAX_PARALLEL_REQUESTS

\* how many fetches of the pass were issued for a family and a seed
TimesIssued(family, seed) ==
    Cardinality({n \in 1 .. Len(t_issued) :
                    t_issued[n] = [family |-> family, seed |-> seed]})

\* C3: over 6 regions with a cap of 4 the sweep issues its fetches in two
\* groups, 4 regions then 2; never more than 4 fetches are in flight; the
\* fetches in flight belong to one group, the latest one issued, so that no
\* fetch of the second group starts while one of the first is unfinished; a
\* fetch of a region is issued after those of every earlier group; and when
\* the pass has ended each region was fetched once per family, in the groups
\* {0,1,2,3} and {4,5}.
SweepIssuesTwoGroups ==
    /\ Cardinality(t_inflight) <= MAX_PARALLEL_REQUESTS
    /\ \A n \in 1 .. Len(t_issued), m \in 1 .. Len(t_issued) :
          n < m => GroupOf(t_issued[n].seed) <= GroupOf(t_issued[m].seed)
    /\ \A k \in t_inflight :
          /\ t_issued # <<>>
          /\ GroupOf(k) = GroupOf(t_issued[Len(t_issued)].seed)
    /\ \A n \in 1 .. Len(t_issued) : GroupOf(t_issued[n].seed) \in {0, 1}
    /\ (t_pc = "sleep" /\ t_issued # <<>>) =>
          /\ \A seed \in Range0(NUM_ABOVE_SEEDS) :
                TimesIssued("geo", seed) = 1 /\ TimesIssued("all", seed) = 1
          /\ Len(t_issued) = 2 * NUM_ABOVE_SEEDS
          /\ {t_issued[n].seed : n \in {n \in 1 .. Len(t_issued) :
                                          GroupOf(t_issued[n].seed) = 0}} = 0 .. 3
          /\ {t_issued[n].seed : n \in {n \in 1 .. Len(t_issued) :
                                          GroupOf(t_issued[n].seed) = 1}} = {4, 5}

\* C3 witness: the two fetches of the second group are in flight and the
\* eight of the first group have been issued before them
SecondGroupInFlight ==
    /\ t_inflight = {4, 5}
    /\ Len(t_issued) = 2 * MAX_PARALLEL_REQUESTS + 2

\* a response is a rate-limit error payload
IsRateLimitResp(r) == Truthy(r.error) /\ IsRateLimit(r.error[1])

\* the responses the current sweep pass has received so far
ReceivedInPass ==
    SeqSet(t_geo) \cup SeqSet(t_all)
    \cup (IF t_pc = "gather_all" THEN SeqSet(t_batch_geo) ELSE {})
    \cup (IF t_pc \in {"gather_geo", "gather_all"}
          THEN {t_res[k] : k \in (DOMAIN t_res) \ t_inflight} ELSE {})

\* C4: once a sweep pass has received a rate-limit signal it issues no
\* further fetch: while the pass goes on (the loop is not in the sleep
\* between passes) the list of fetches issued in the pass does not grow.
\* The next pass, which starts from that sleep, issues fetches again.
NoFetchAfterRateLimit ==
    [][ (t_pc # "sleep" /\ \E r \in ReceivedInPass : IsRateLimitResp(r))
        => t_issued' = t_issued ]_vars

\* a fetch of a sweep group failed: it raised ({} is returned) or its
\* payload carries an error
FailedResp(r) == r = EmptyResp \/ Truthy(r.error)

\* a record that every conversion of the merge accepts
WellFormed(item) ==
    /\ item.satid # None /\ ~Raises(item.satid)
    /\ ~OptFloatRaises(item.satlat) /\ ~OptFloatRaises(item.satlng)
    /\ ~FloatOrZeroRaises(item.satalt)

\* a record the family's filter keeps (the unfiltered family keeps the
\* records below LEO_MAX_ALT)
Kept(family, item) == family = "geo" \/ FloatOrZero(item.satalt) < LEO_MAX_ALT

\* the record was merged by the pass that ran at time now
Merged(T, item, now) ==
    /\ Has(T, Float(item.satid))
    /\ Lookup(T, Float(item.satid)).last_update = Some(now)

\* the responses of one family in one group of regions
GroupResps(resps, g) ==
    {resps[n] : n \in {n \in 1 .. Len(resps) : GroupOf(n - 1) = g}}

\* C5: when one fetch of a group fails, the records of the other, successful
\* fetches of the group are still merged in that pass. For a sweep pass
\* whose records are all well-formed: for each family and group with a
\* failed fetch, every record of the group's successful fetches that the
\* family keeps is in the catalog after the pass's merge, stamped with the
\* pass's time. For a refresh batch: every position a fetch of the batch
\* brought for an id of the catalog is stored, stamped with the pass's
\* time, whatever became of the other fetches.
GroupSiblingsStillMerged ==
    [][ /\ (SweepMergeStep
            /\ \A item \in ItemsOf(t_geo') \cup ItemsOf(t_all') : WellFormed(item))
           => \A g \in {0, 1} :
                 /\ (\E r \in GroupResps(t_geo', g) : FailedResp(r))
                    => \A r \in GroupResps(t_geo', g) : \A item \in SeqSet(r.above) :
                          ~FailedResp(r) => Merged(tracked', item, t_now)
                 /\ (\E r \in GroupResps(t_all', g) : FailedResp(r))
                    => \A r \in GroupResps(t_all', g) : \A item \in SeqSet(r.above) :
                          (~FailedResp(r) /\ Kept("all", item))
                          => Merged(tracked', item, t_now)
        /\ RefreshMergeStep
           => \A id \in KeySet(tracked) :
                 Refreshed(id) =>
                    Lookup(tracked', id).last_update = p_res[id][1].updates.last_update
      ]_vars

\* a fetch of the latest sweep pass failed: it raised, or its payload
\* carries an error
SweepFetchFailed ==
    t_failed \/ \E r \in SeqSet(t_geo) \cup SeqSet(t_all) : Truthy(r.error)

\* C6: every fetch failure of either cycle is recorded as the last-observed
\* error. When both cycles are asleep between passes and the cycle that
\* started a pass most recently had a fetch fail in that pass (it raised, or
\* the payload carried an error), the last-observed error is not empty.
FetchFailureIsRecorded ==
    (t_pc = "sleep" /\ p_pc = "sleep") =>
       /\ (last_pass = "tracker" /\ SweepFetchFailed) => last_err # None
       /\ (last_pass = "positions" /\ p_failed) => last_err # None

\* C7: a malformed record is skipped on its own. In a sweep pass that
\* receives no rate-limit payload, every well-formed record of every
\* response that its family keeps is in the catalog after the pass's
\* merge, stamped with the pass's time, whatever malformed records the
\* responses hold besides.
MalformedRecordSkippedAlone ==
    [][ (SweepMergeStep
         /\ \A r \in SeqSet(t_geo') \cup SeqSet(t_all') : ~IsRateLimitResp(r))
        => /\ \A item \in ItemsOf(t_geo') :
                 WellFormed(item) => Merged(tracked', item, t_now)
           /\ \A item \in ItemsOf(t_all') :
                 (WellFormed(item) /\ Kept("all", item))
                 => Merged(tracked', item, t_now)
      ]_vars

\* the step that ends a broadcast tick in which send_json was awaited
TickEndStep == b_pc = "send" /\ b_pc' = "sleep"

\* C8: in a tick where a delivery fails, the other subscribers of the set at
\* the start of the tick are still sent the payload, and the failing one is
\* not in the set when the tick ends. When a tick ends, every subscriber of
\* its starting set either received the tick's payload or failed, those that
\* failed are not in the subscriber set, and nobody else was removed.
DeliveryFailureIsContained ==
    [][ TickEndStep =>
          /\ \A ws \in b_start : received'[ws] # None \/ ws \in b_dead'
          /\ \A ws \in b_start \ b_dead' : received'[ws] # None
          /\ b_dead' \cap clients' = {}
          /\ clients' = clients \ b_dead'
      ]_vars

\* C8 witness: a tick has ended in which one subscriber of the starting set
\* failed and was removed and another one received the payload
TickWithOneFailure ==
    /\ b_pc = "sleep"
    /\ \E dead \in b_start, ws \in b_start :
          /\ dead \in b_dead
          /\ dead \notin clients
          /\ ws # dead
          /\ received[ws] # None

\* C9: no loop stops because of a fetch failure, a rate-limit signal, a
\* malformed record or a delivery failure: under fair scheduling the
\* regional sweep, the per-object refresh and the broadcast each start a new
\* pass infinitely often.
LoopsNeverStop ==
    /\ []<>(last_pass = "tracker")
    /\ []<>(last_pass = "positions")
    /\ []<>(last_pass = "broadcast")

\* C9 witness: a sweep pass met a malformed record (entry 2 is in the catalog
\* and the record after the malformed one is not), a refresh fetch failed, a
\* delivery failed and removed the subscriber, and the sweep is in a new pass
NewPassAfterErrors ==
    /\ Has(tracked, 2) /\ ~Has(tracked, 1)
    /\ p_failed
    /\ ws_state[1] = "closed" /\ 1 \notin clients
    /\ t_pc = "gather_geo" /\ t_geo = <<>>

\* C10: the object list every subscriber receives in a tick equals the
\* catalog entries as they were when the tick took its snapshot (and so is
\* the list the counts and alerts of the payload were computed from, and is
\* the same for all subscribers of the tick), whatever merge runs while the
\* delivery is in progress.
SubscribersReceiveSnapshot ==
    \A ws \in WS : received[ws] # None => received[ws][1].sats = b_snap

\* the distance find_close_pairs measures between the entries i and j of L
DistanceOf(L, i, j) ==
    euclidean_km_from_latlonalt(L[i].satlat[1], L[i].satlng[1], AltOf(L[i]),
                                L[j].satlat[1], L[j].satlng[1], AltOf(L[j]))

\* the entry has a latitude and a longitude
HasCoords(d) == d.satlat # None /\ d.satlng # None

\* the pairs i < j of entries of L with coordinates, at most threshold apart
CloseSet(L, threshold) ==
    { p \in (1 .. Len(L)) \X (1 .. Len(L)) :
         /\ p[1] < p[2]
         /\ HasCoords(L[p[1]]) /\ HasCoords(L[p[2]])
         /\ DistanceOf(L, p[1], p[2]) <= threshold }

\* the alert that reports the pair p of L
AlertOf(L, p) ==
    [a |-> L[p[1]].satname, b |-> L[p[2]].satname,
     dist_km |-> DistanceOf(L, p[1], p[2])]

\* p comes before q in the order of (i, j)
PairBefore(p, q) == p[1] < q[1] \/ (p[1] = q[1] /\ p[2] < q[2])

\* the pairs of the set S in the order of (i, j)
InPairOrder(S) ==
    [n \in 1 .. Cardinality(S) |->
        CHOOSE p \in S : Cardinality({q \in S : PairBefore(q, p)}) = n - 1]

\* C11: the scan returns exactly the pairs i < j of objects that both have
\* a latitude and a longitude and are at most the threshold apart, each
\* once and in the order of (i, j): the alerts of the response of a query
\* over a catalog of 5 objects are the alerts of those pairs, in that order.
ScanReturnsClosePairs ==
    q_resp # None =>
       \A L \in {q_resp[1].sats} :
          \A order \in {InPairOrder(CloseSet(L, PROXIMITY_THRESHOLD_KM))} :
             q_resp[1].alerts = [n \in 1 .. Len(order) |-> AlertOf(L, order[n])]

\* C11 witness: a response over five objects that reports two pairs, one of
\* them exactly the threshold apart, and leaves out a pair farther apart
ScanFoundSomePairs ==
    /\ q_resp # None
    /\ Len(q_resp[1].sats) = ScanLen
    /\ Len(q_resp[1].alerts) = 2
    /\ \E n \in 1 .. 2 : q_resp[1].alerts[n].dist_km = PROXIMITY_THRESHOLD_KM
    /\ \E i \in 1 .. ScanLen, j \in 1 .. ScanLen :
          /\ i < j
          /\ HasCoords(q_resp[1].sats[i]) /\ HasCoords(q_resp[1].sats[j])
          /\ DistanceOf(q_resp[1].sats, i, j) > PROXIMITY_THRESHOLD_KM

\* the alerts of a screening of L from which the entries without a latitude
\* or a longitude have been taken away
AlertsOfLocated(L) == AlertPairs(SelectSeq(L, HasCoords))

\* C12: an object without latitude or longitude is in no proximity pair of a
\* broadcast tick or an on-demand query, yet it stays in the catalog and is
\* in the payload's object list and total count. The alerts of a tick and
\* of a query are the alerts of the screening of the objects that have both
\* coordinates; the total counts every object of the list; a subscriber
\* receives the tick's alerts and total with an object list of that
\* length; and every id the tick listed is in the catalog.
AbsentCoordsAreNotScreened ==
    /\ b_meta.alerts = AlertsOfLocated(b_snap)
    /\ b_meta.counts.total = Len(b_snap)
    /\ b_meta.counts.alerts = Len(b_meta.alerts)
    /\ \A n \in 1 .. Len(b_sats) : Has(tracked, b_sats[n])
    /\ \A ws \in WS :
          received[ws] # None =>
             /\ received[ws][1].alerts = b_meta.alerts
             /\ received[ws][1].counts = b_meta.counts
             /\ Len(received[ws][1].sats) = Len(b_snap)
    /\ q_resp # None =>
          /\ q_resp[1].alerts = AlertsOfLocated(q_resp[1].sats)
          /\ q_resp[1].counts.total = Len(q_resp[1].sats)
          /\ q_resp[1].counts.alerts = Len(q_resp[1].alerts)
          /\ \A n \in 1 .. Len(q_resp[1].sats) :
                q_resp[1].sats[n].satid # None => Has(tracked, q_resp[1].sats[n].satid[1])

\* C12 witness: a subscriber and a query were each given a payload that
\* lists three objects, one of them without a coordinate, counts three and
\* reports the one pair of the other two
CoordlessObjectIsListed ==
    \E ws \in WS :
       /\ received[ws] # None /\ q_resp # None
       /\ \A P \in {received[ws][1], q_resp[1]} :
             /\ Len(P.sats) = 3 /\ P.counts.total = 3
             /\ \E n \in 1 .. 3 : ~HasCoords(P.sats[n])
             /\ Len(P.alerts) = 1

\* C13: the catalog only grows. No step of the regional sweep, the
\* per-object refresh, load-all, the demo simulator, the broadcaster or the
\* on-demand query takes an id out of the catalog: the ids before a step
\* are, in their order, a prefix of the ids after it.
CatalogOnlyGrows ==
    [][ /\ Len(tracked) <= Len(tracked')
        /\ SubSeq(Keys(tracked'), 1, Len(tracked)) = Keys(tracked) ]_vars

\* C13 witness: a catalog that a sweep pass started was added to while
\* load-all, the refresh and the on-demand query had all run
CatalogHasGrown ==
    /\ Live /\ Len(tracked) = 2 /\ l_pc = "idle" /\ l_res # <<>>
    /\ p_sats # <<>> /\ q_resp # None /\ b_snap # <<>>

\* C14: the on-demand query answers with a payload built from the catalog
\* as it is when the query is handled, without fetching from the upstream
\* and without waiting for the broadcaster; with a live source configured
\* it leaves the catalog as it was. Every step that sets a new query
\* response sets it to the payload of the catalog after the step, spends no
\* upstream answer, starts or ends no fetch, moves no loop and no
\* subscriber, and changes the catalog only when no live source is
\* configured.
QueryAnswersFromCatalog ==
    [][ q_resp' # q_resp =>
          /\ \A meta \in {PayloadMeta(Values(tracked'))} :
                q_resp' = Some([sats |-> Values(tracked'), counts |-> meta.counts,
                                alerts |-> meta.alerts])
          /\ Live => tracked' = tracked
          /\ UNCHANGED <<answers_left, last_err, tvars, pvars, lvars, bvars, cvars, d_pc>>
      ]_vars

\* C14 witness: with a live source, a query was answered while fetches of
\* load-all and of the sweep were in flight, from a catalog that had grown
\* since the last broadcast tick listed it
QueryAnsweredAtOnce ==
    /\ Live
    /\ l_pending > 0
    /\ t_inflight # {}
    /\ q_resp # None
    /\ q_resp[1].sats = Values(tracked)
    /\ b_snap # <<>>
    /\ Len(q_resp[1].sats) > Len(b_snap)

\* C15: the distance is symmetric and the distance of a position to itself
\* is 0. For the two objects a query screened, the distance from the first
\* to the second is the distance from the second to the first, the distance
\* of each to itself is 0, and the alert of the pair, when there is one,
\* carries that distance.
DistanceIsSymmetric ==
    q_resp # None =>
       \A L \in {q_resp[1].sats} :
          /\ DistanceOf(L, 1, 2) = DistanceOf(L, 2, 1)
          /\ DistanceOf(L, 1, 1) = 0
          /\ DistanceOf(L, 2, 2) = 0
          /\ \A n \in 1 .. Len(q_resp[1].alerts) :
                q_resp[1].alerts[n].dist_km = DistanceOf(L, 2, 1)

\* C15 witness: a query screened two objects at different positions and
\* altitudes that are within the threshold of each other
DistanceOfDistinctPair ==
    /\ q_resp # None
    /\ Len(q_resp[1].sats) = 2
    /\ q_resp[1].sats[1].satalt # q_resp[1].sats[2].satalt
    /\ Len(q_resp[1].alerts) = 1
    /\ q_resp[1].alerts[1].dist_km > 0

\* C16: the last-update timestamp of a catalog entry never decreases, under
\* any interleaving of sweep merges and refresh merges: no step takes the
\* timestamp of an entry to an earlier one.
TimestampNeverDecreases ==
    [][ \A n \in 1 .. Len(tracked) :
           tracked[n].val.last_update # None =>
              /\ tracked'[n].val.last_update # None
              /\ tracked'[n].val.last_update[1] >= tracked[n].val.last_update[1]
      ]_vars

\* C17: at no time are more fetches in flight against the upstream than the
\* parallelism cap, counting the regional sweep, the per-object refresh and
\* load-all together.
FetchesInFlightWithinCap ==
    Cardinality(t_inflight) + Cardinality(p_inflight) + l_pending
       <= MAX_PARALLEL_REQUESTS

\* C18: a slow subscriber never blocks the broadcaster. Also when the
\* delivery to one subscriber never completes, the broadcast loop reaches
\* the sleep at the end of a tick again and again, and every subscriber
\* whose connection is open and reading is eventually delivered a payload
\* (or leaves).
SlowSubscriberNeverBlocks ==
    /\ []<>(b_pc = "sleep")
    /\ \A ws \in WS :
          (ws \in clients /\ ws_state[ws] = "open")
             ~> (received[ws] # None \/ ws_state[ws] # "open")

\* C19: no reader sees a partially applied merge; in particular no entry is
\* visible without its id: in every snapshot the broadcaster or the
\* on-demand query took, each entry carries its id.
NoPlaceholderVisible ==
    /\ \A n \in 1 .. Len(b_snap) : b_snap[n].satid # None
    /\ q_resp # None =>
          \A n \in 1 .. Len(q_resp[1].sats) : q_resp[1].sats[n].satid # None

\* C20: a client is in the subscriber set from its connection on and is
\* removed when it disconnects or a delivery to it fails: a client that has
\* disconnected is eventually no longer in the subscriber set, and no
\* payload is sent to a client that has been removed.
DisconnectedClientIsRemoved ==
    /\ \A ws \in WS : (ws_state[ws] = "closed") ~> (ws \notin clients)
    /\ [](\A ws \in WS :
            (ws_state[ws] # "new" /\ ws \notin clients)
               => (b_cur # Some(ws) /\ ws \notin b_todo))

\* the id a record carries, when it carries a numeric one
HasId(item) == item.satid # None /\ ~Raises(item.satid)

\* C21: the category is set by the sweep fetch that merged the record last.
\* Every entry of the catalog has the category LEO or GEO, and an object that
\* a sweep pass received both in a GEO-filtered response and, with an
\* altitude below LEO_MAX_ALT, in an unfiltered response has the category
\* LEO when the pass has merged.
CategoryIsLastWrite ==
    [][ /\ \A n \in 1 .. Len(tracked') :
              tracked'[n].val.category \in {Some("LEO"), Some("GEO")}
        /\ SweepMergeStep =>
              \A g \in ItemsOf(t_geo \o t_batch_geo),
                 a \in ItemsOf(t_all \o Gathered(t_i)) :
                 ( /\ HasId(g) /\ HasId(a) /\ g.satid = a.satid
                   /\ ~FloatOrZeroRaises(a.satalt)
                   /\ FloatOrZero(a.satalt) < LEO_MAX_ALT )
                 => /\ Has(tracked', Float(a.satid))
                    /\ Lookup(tracked', Float(a.satid)).category = Some("LEO")
      ]_vars

\* C22: the per-object refresh never adds an id to the catalog. Every step
\* of the refresh leaves the ids of the catalog as they are, the id snapshot
\* a pass takes is the ids of the catalog at that moment, and the fetches in
\* flight are for ids of the snapshot only.
RefreshNeverAddsIds ==
    [][ pvars' # pvars =>
          /\ Keys(tracked') = Keys(tracked)
          /\ p_sats' # p_sats => p_sats' = Keys(tracked)
          /\ p_inflight' \subseteq SeqSet(p_sats')
      ]_vars

\* C22 witness: a refresh pass whose snapshot held object 1 only has merged
\* a position for it and ended, with object 2, which a sweep added, in the
\* catalog and not refreshed
RefreshPassBesideNewId ==
    /\ p_sats = <<1>>
    /\ p_pc = "sleep"
    /\ Keys(tracked) = <<1, 2>>
    /\ Lookup(tracked, 1).satlat = Some(30)
    /\ Lookup(tracked, 2).satlat = Some(10)

\* a live source is configured
LiveSource == ~demo_mode /\ has_key

\* C23: the demo simulator and the live fetch path never both write the
\* catalog. With a live source configured the demo loop never runs and no
\* on-demand query changes the catalog; with none configured the sweep, the
\* refresh and load-all make no step; and a query that finds the catalog
\* empty with no live source configured returns a non-empty object list.
WritersAreExclusive ==
    [][ /\ LiveSource => (d_pc' = "start" /\ (q_resp' # q_resp => tracked' = tracked))
        /\ ~LiveSource => UNCHANGED <<tvars, pvars, lvars>>
        /\ (~LiveSource /\ tracked = <<>> /\ q_resp' # q_resp)
              => (q_resp' # None /\ q_resp'[1].sats # <<>>)
      ]_vars

\* C23 witness: with demo mode off and no API key, a query found the
\* catalog empty and returned the simulator's objects, the demo loop not
\* having run
QuerySeededDemoCatalog ==
    /\ ~demo_mode /\ ~has_key
    /\ d_pc = "start"
    /\ q_resp # None
    /\ Len(q_resp[1].sats) = NUM_DEMO_GEO + NUM_DEMO_LEO
    /\ Keys(tracked)[1] = DEMO_GEO_ID

====
